---------------------------- MODULE Spec2Model ----------------------------
(***************************************************************************)
(* A model of gulaschkanone.py: the event card generator (card), the       *)
(* timetable layout engine (timetable, get_seperator) and the update       *)
(* mechanism (update, check_for_updates) next to the request handler       *)
(* (handle_gulasch_request) on the asyncio event loop.                     *)
(*                                                                         *)
(* Time is counted in minutes from a full hour.  A title is the sequence   *)
(* of the lengths of its words (words of letters, separated by single      *)
(* blanks); a line of text is its length.  Box drawing glyphs are named:   *)
(*   UD vertical bar, LR horizontal bar, T_DOWN (F,T,T,F), T_UP (T,F,F,T), *)
(*   T_LEFT (F,F,T,T), T_RIGHT (T,T,F,F), CROSS, CORNER_UR (up+right),     *)
(*   CORNER_DR (down+right), CORNER_DL (down+left), CORNER_UL (up+left).   *)
(***************************************************************************)
EXTENDS Integers, Sequences, FiniteSets, TLC

VARIABLES
    gen,        \* one card generator object: its arguments and its position
    events,     \* the argument `events` of the timetable call
    col_width,  \* the argument `col_width` of the timetable call
    tt,         \* the timetable call: its locals and its position
    DATA,       \* the global DATA: 'locations' and 'events'
    META_DATA,  \* the global META_DATA: 'last_update'
    main,       \* the position of __main__ / web.run_app
    upd,        \* the task check_for_updates and the update() it runs
    req,        \* one request in handle_gulasch_request
    feed,       \* the number of fetches started so far
    hist        \* what the last finished update() call started from and how it ended

vars == <<gen, events, col_width, tt, DATA, META_DATA, main, upd, req, feed, hist>>

-----------------------------------------------------------------------------
(* Bounds of the model.                                                    *)

MaxWords == 2        \* words in a title
MaxDuration == 70    \* minutes of an event given to a card generator alone
MaxEvents == 2       \* events given to one timetable call
MaxFetches == 3      \* fetches of the feed in one run of the server

WordLens == {2, 4, 9}
ColWidths == {8, 9, 20}
StartTimes == {0, 2, 15}
Durations == {5, 15, 22, 30}
TimetableTitles == {<< >>, <<9, 9>>}
TimetableColWidths == {8, 20}
AllLocations == <<"loc1", "loc2">>

Max(a, b) == IF a >= b THEN a ELSE b

RECURSIVE SeqsUpTo(_, _)
SeqsUpTo(S, n) ==
    IF n = 0 THEN {<< >>}
    ELSE LET shorter == SeqsUpTo(S, n - 1)
         IN  shorter \cup {Append(s, x) : s \in shorter, x \in S}

Titles == SeqsUpTo(WordLens, MaxWords)

-----------------------------------------------------------------------------
(* textwrap.wrap(title, text_width), as card calls it (line 288): the      *)
(* chunks of the title are its words and the blanks between them.          *)

Chunks(title) ==
    [i \in 1..(IF title = << >> THEN 0 ELSE 2 * Len(title) - 1) |->
        IF i % 2 = 1 THEN [ws |-> FALSE, len |-> title[(i + 1) \div 2]]
                     ELSE [ws |-> TRUE, len |-> 1]]

RECURSIVE SumLen(_)
SumLen(line) == IF line = << >> THEN 0 ELSE Head(line).len + SumLen(Tail(line))

\* chunk.strip() == ''
IsBlank(chunk) == chunk.ws \/ chunk.len = 0

Front(s) == SubSeq(s, 1, Len(s) - 1)
Last(s) == s[Len(s)]

\* the inner loop of TextWrapper._wrap_chunks: chunks that still fit the line
RECURSIVE Fill(_, _, _)
Fill(chunks, cur_line, width) ==
    IF chunks # << >> /\ SumLen(cur_line) + Head(chunks).len <= width
    THEN Fill(Tail(chunks), Append(cur_line, Head(chunks)), width)
    ELSE [line |-> cur_line, rest |-> chunks]

\* TextWrapper._handle_long_word with break_long_words: the word is cut at
\* the space left on the line
HandleLongWord(f, width) ==
    LET space_left == IF width < 1 THEN 1 ELSE width - SumLen(f.line)
        chunk == Head(f.rest)
    IN  [line |-> Append(f.line, [ws |-> FALSE, len |-> space_left]),
         rest |-> <<[ws |-> FALSE, len |-> chunk.len - space_left]>> \o Tail(f.rest)]

RECURSIVE WrapChunks(_, _, _)
WrapChunks(chunks, width, lines) ==
    IF chunks = << >> THEN lines
    ELSE LET c1 == IF IsBlank(Head(chunks)) /\ lines # << >>
                   THEN Tail(chunks) ELSE chunks
             f == Fill(c1, << >>, width)
             g == IF f.rest # << >> /\ Head(f.rest).len > width
                  THEN HandleLongWord(f, width) ELSE f
             cur_line == IF g.line # << >> /\ IsBlank(Last(g.line))
                         THEN Front(g.line) ELSE g.line
         IN  WrapChunks(g.rest, width,
                        IF cur_line # << >> THEN Append(lines, SumLen(cur_line))
                                            ELSE lines)

\* the lengths of the lines of the wrapped title
Wrap(title, width) == WrapChunks(Chunks(title), width, << >>)

-----------------------------------------------------------------------------
(* card(event, col_width), lines 278-317.                                  *)

Height(event) == event.duration \div 5 - 1

MaxTitleLines(height) == IF height <= 5 THEN 1 ELSE 5

\* lines 288-303: the wrapped title, shortened when space is scarce
TitleLines(event, cw) ==
    LET text_width == cw - 4
        titlelines == Wrap(event.title, text_width)
        height == Height(event)
        cut == SubSeq(titlelines, 1, MaxTitleLines(height))
        lastln == Last(cut)
    IN  IF height <= 11 /\ Len(titlelines) > MaxTitleLines(height)
        THEN [cut EXCEPT ![Len(cut)] =
                 IF lastln = text_width THEN (text_width - 1) + 1 ELSE lastln + 1]
        ELSE titlelines

FillerCountOffByOne(event, cw) ==
    Max(0, Height(event) - Len(TitleLines(event, cw)) - 2)

FillerCountShort(event, cw) ==
    Max(0, Height(event) - Len(TitleLines(event, cw)) - 4)

\* line 313: range(height-len(titlelines)-3), empty when that is negative
FillerCount(event, cw) ==
    Max(0, Height(event) - Len(TitleLines(event, cw)) - 3)

\* lines 310-317: everything the generator yields, in order
CardLines(event, cw) ==
    LET titlelines == TitleLines(event, cw)
    IN  <<[kind |-> "empty", len |-> cw]>>
        \o [i \in 1..Len(titlelines) |->
               [kind |-> "title", len |-> 2 + Max(titlelines[i], cw - 4) + 2]]
        \o [i \in 1..FillerCount(event, cw) |-> [kind |-> "empty", len |-> cw]]
        \o <<[kind |-> "speakers", len |-> cw]>>
        \o <<[kind |-> "empty", len |-> cw]>>

\* a generator object that has not run yet; `lines` is what it will yield
NewCard(event, cw) ==
    [event |-> event, col_width |-> cw, lines |-> CardLines(event, cw),
     pos |-> 0, state |-> "suspended"]

\* whether next(g) returns a line (and does not raise StopIteration)
HasNext(g) == g.pos < Len(g.lines)

\* next(g): the generator after it
Advance(g) ==
    IF HasNext(g) THEN [g EXCEPT !.pos = @ + 1]
    ELSE [g EXCEPT !.state = "exhausted"]

-----------------------------------------------------------------------------
(* Event (lines 111-124) and the locals of timetable (lines 181-195).      *)

RowStep == 5     \* byminute=range(0, 60, 5)
TickStep == 30   \* byminute=(0, 30)

NoEvent == 0     \* the None that next(..., None) returns; ids start at 1

\* Event.__init__, line 116
End(e) == e.start + e.duration

\* Event.is_running_at, lines 123-124
IsRunningAt(e, dt) == e.start < dt /\ dt < End(e)

SetMin(S) == CHOOSE x \in S : \A y \in S : x <= y
SetMax(S) == CHOOSE x \in S : \A y \in S : x >= y

\* lines 181-182
GlobalStart(evs) == SetMin({evs[i].start : i \in DOMAIN evs})
GlobalEnd(evs) == SetMax({End(evs[i]) : i \in DOMAIN evs})

\* lines 185-186: the locations of the events in the order of DATA['locations']
Locations(evs, data_locations) ==
    SelectSeq(data_locations, LAMBDA loc : \E i \in DOMAIN evs : evs[i].location = loc)

\* rrule(HOURLY, byminute=range(0, 60, 5), dtstart=global_start, until=global_end):
\* the minutes of the clock that are multiples of five, from dtstart on
FirstRow(global_start) == global_start + ((RowStep - (global_start % RowStep)) % RowStep)

RowTimes(evs) ==
    {t \in GlobalStart(evs)..GlobalEnd(evs) : t % RowStep = 0}

\* dt in tick_times, lines 192-193 and 219-220
IsTick(dt) == dt % TickStep = 0

\* events_by_location[loc], line 189, as the positions in the list
EventsAt(evs, loc) == {i \in DOMAIN evs : evs[i].location = loc}

\* next((e for e in ... if ...), None): the id of the first of the events at the
\* positions S
FirstEvent(evs, S) == IF S = {} THEN NoEvent ELSE evs[SetMin(S)].id

\* lines 222-227
StartingEvent(evs, loc, dt) ==
    FirstEvent(evs, {i \in EventsAt(evs, loc) : evs[i].start = dt})
RunningEvent(evs, loc, dt) ==
    FirstEvent(evs, {i \in EventsAt(evs, loc) : IsRunningAt(evs[i], dt)})
EndingEvent(evs, loc, dt) ==
    FirstEvent(evs, {i \in EventsAt(evs, loc) : End(evs[i]) = dt})

-----------------------------------------------------------------------------
(* get_seperator, lines 199-215.                                           *)

seperatorsUpsideDown ==
    (<<FALSE, TRUE, TRUE, FALSE>> :> "T_UP") @@
    (<<TRUE, FALSE, FALSE, TRUE>> :> "T_DOWN") @@
    (<<FALSE, FALSE, TRUE, TRUE>> :> "T_LEFT") @@
    (<<TRUE, TRUE, FALSE, FALSE>> :> "T_RIGHT") @@
    (<<FALSE, TRUE, FALSE, TRUE>> :> "CROSS") @@
    (<<TRUE, FALSE, TRUE, FALSE>> :> "CROSS")

seperators ==
    (<<FALSE, TRUE, TRUE, FALSE>> :> "T_DOWN") @@
    (<<TRUE, FALSE, FALSE, TRUE>> :> "T_UP") @@
    (<<FALSE, FALSE, TRUE, TRUE>> :> "T_LEFT") @@
    (<<TRUE, TRUE, FALSE, FALSE>> :> "T_RIGHT") @@
    (<<FALSE, TRUE, FALSE, TRUE>> :> "CROSS") @@
    (<<TRUE, FALSE, TRUE, FALSE>> :> "CROSS")

\* sum(args)
CountTrue(args) == Cardinality({i \in DOMAIN args : args[i]})

\* args.index(True)
IndexTrue(args) == SetMin({i \in DOMAIN args : args[i]})

\* the glyph returned, or "KeyError" when the lookup misses
get_seperator(args) ==
    IF CountTrue(args) >= 3 THEN "CROSS"
    ELSE IF CountTrue(args) = 1
         THEN <<"CORNER_UR", "CORNER_DR", "CORNER_DL", "CORNER_UL">>[IndexTrue(args)]
         ELSE IF args \in DOMAIN seperators THEN seperators[args] ELSE "KeyError"

-----------------------------------------------------------------------------
(* One pass of the loop over the rows, lines 217-273.  A part of a row is  *)
(* [sep, cell, call, ask]: the glyph left of a cell, what fills the cell   *)
(* ("rule", "card" or "fill"), the arguments get_seperator was called with *)
(* (<< >> when it was not called) and the id of the event whose card was   *)
(* asked for its next line (NoEvent when none was).                        *)

Part(sep, cell, call, ask) == [sep |-> sep, cell |-> cell, call |-> call, ask |-> ask]

\* lines 229-237: the left edge and the cell of the first location
FirstColumn(evs, loc, dt) ==
    LET start == StartingEvent(evs, loc, dt)
        run == RunningEvent(evs, loc, dt)
        end == EndingEvent(evs, loc, dt)
        args == <<end # NoEvent, start # NoEvent, FALSE, FALSE>>
    IN  IF start # NoEvent \/ end # NoEvent
        THEN Part(get_seperator(args), "rule", args, NoEvent)
        ELSE IF run # NoEvent
             THEN Part("UD", "card", << >>, run)
             ELSE Part("fill", "fill", << >>, NoEvent)

JunctionLooksUpUnguarded(evs, loc1, loc2, dt) ==
    LET start1 == StartingEvent(evs, loc1, dt)
        run1 == RunningEvent(evs, loc1, dt)
        end1 == EndingEvent(evs, loc1, dt)
        start2 == StartingEvent(evs, loc2, dt)
        run2 == RunningEvent(evs, loc2, dt)
        end2 == EndingEvent(evs, loc2, dt)
        start_end == <<end2 # NoEvent, start2 # NoEvent, start1 # NoEvent, end1 # NoEvent>>
        looked_up == ~(run1 # NoEvent /\ (start2 # NoEvent \/ end2 # NoEvent))
                     /\ ~(run2 # NoEvent /\ (start1 # NoEvent \/ end1 # NoEvent))
                     /\ ~(run1 # NoEvent \/ run2 # NoEvent)
        sep == IF run1 # NoEvent /\ (start2 # NoEvent \/ end2 # NoEvent) THEN "T_RIGHT"
               ELSE IF run2 # NoEvent /\ (start1 # NoEvent \/ end1 # NoEvent) THEN "T_LEFT"
               ELSE IF run1 # NoEvent \/ run2 # NoEvent THEN "UD"
               ELSE get_seperator(start_end)
        call == IF looked_up THEN start_end ELSE << >>
    IN  IF run2 # NoEvent THEN Part(sep, "card", call, run2)
        ELSE IF start2 # NoEvent \/ end2 # NoEvent THEN Part(sep, "rule", call, NoEvent)
        ELSE Part(sep, "fill", call, NoEvent)

\* lines 239-261: the junction between loc1 and loc2 and the cell of loc2
Junction(evs, loc1, loc2, dt) ==
    LET start1 == StartingEvent(evs, loc1, dt)
        run1 == RunningEvent(evs, loc1, dt)
        end1 == EndingEvent(evs, loc1, dt)
        start2 == StartingEvent(evs, loc2, dt)
        run2 == RunningEvent(evs, loc2, dt)
        end2 == EndingEvent(evs, loc2, dt)
        start_end == <<end2 # NoEvent, start2 # NoEvent, start1 # NoEvent, end1 # NoEvent>>
        looked_up == ~(run1 # NoEvent /\ (start2 # NoEvent \/ end2 # NoEvent))
                     /\ ~(run2 # NoEvent /\ (start1 # NoEvent \/ end1 # NoEvent))
                     /\ CountTrue(start_end) > 0
        sep == IF run1 # NoEvent /\ (start2 # NoEvent \/ end2 # NoEvent) THEN "T_RIGHT"
               ELSE IF run2 # NoEvent /\ (start1 # NoEvent \/ end1 # NoEvent) THEN "T_LEFT"
               ELSE IF CountTrue(start_end) > 0 THEN get_seperator(start_end)
               ELSE IF run1 # NoEvent \/ run2 # NoEvent THEN "UD"
               ELSE "fill"
        call == IF looked_up THEN start_end ELSE << >>
    IN  IF run2 # NoEvent THEN Part(sep, "card", call, run2)
        ELSE IF start2 # NoEvent \/ end2 # NoEvent THEN Part(sep, "rule", call, NoEvent)
        ELSE Part(sep, "fill", call, NoEvent)

\* lines 263-271: the right edge after the last location
LastColumn(evs, loc, dt) ==
    LET start == StartingEvent(evs, loc, dt)
        run == RunningEvent(evs, loc, dt)
        end == EndingEvent(evs, loc, dt)
        args == <<FALSE, FALSE, start # NoEvent, end # NoEvent>>
    IN  IF start # NoEvent \/ end # NoEvent
        THEN Part(get_seperator(args), "edge", args, NoEvent)
        ELSE IF run # NoEvent
             THEN Part("UD", "edge", << >>, NoEvent)
             ELSE Part("fill", "edge", << >>, NoEvent)

\* the parts of the row at dt, left to right
RowParts(evs, locations, dt) ==
    <<FirstColumn(evs, locations[1], dt)>>
    \o [k \in 1..(Len(locations) - 1) |-> Junction(evs, locations[k], locations[k + 1], dt)]
    \o <<LastColumn(evs, locations[Len(locations)], dt)>>

-----------------------------------------------------------------------------
(* The card generator on its own: next() until it is exhausted.            *)

NoCard == [state |-> "none"]

\* next(gen) on the generator object of card(event, col_width)
CardNext ==
    /\ gen.state = "suspended"
    /\ gen' = Advance(gen)
    /\ UNCHANGED <<events, col_width, tt, DATA, META_DATA, main, upd, req, feed, hist>>

-----------------------------------------------------------------------------
(* timetable(events, col_width), lines 176-275.                            *)

Range(s) == {s[i] : i \in DOMAIN s}

\* lines 178-195: the message for no events, or the locals and the header line
TimetableStart ==
    /\ tt.pc = "request"
    /\ tt' = IF events = << >>
             THEN [tt EXCEPT !.pc = "returned", !.lines = <<[kind |-> "message"]>>]
             ELSE [pc |-> IF FirstRow(GlobalStart(events)) > GlobalEnd(events)
                          THEN "join" ELSE "loop",
                   dt |-> FirstRow(GlobalStart(events)),
                   cards_by_id |-> [id \in {events[i].id : i \in DOMAIN events} |->
                       NewCard(events[SetMax({i \in DOMAIN events : events[i].id = id})],
                               col_width)],
                   lines |-> <<[kind |-> "header"]>>,
                   asked |-> [id \in {events[i].id : i \in DOMAIN events} |-> << >>]]
    /\ UNCHANGED <<gen, events, col_width, DATA, META_DATA, main, upd, req, feed, hist>>

\* lines 217-273: one row.  The cards asked in this row are advanced from left
\* to right; the first one that is exhausted raises StopIteration out of timetable
TimetableRow ==
    /\ tt.pc = "loop"
    /\ \E parts \in {RowParts(events, Locations(events, DATA.locations.val), tt.dt)} :
       \E asks \in {SelectSeq([k \in DOMAIN parts |-> parts[k].ask],
                              LAMBDA id : id # NoEvent)} :
       \E bad \in {{k \in DOMAIN asks : ~HasNext(tt.cards_by_id[asks[k]])}} :
          LET called == IF bad = {} THEN Range(asks)
                        ELSE Range(SubSeq(asks, 1, SetMin(bad)))
              row == [kind |-> "row", dt |-> tt.dt, tick |-> IsTick(tt.dt),
                      parts |-> parts]
          IN  tt' = [tt EXCEPT
                    !.cards_by_id = [id \in DOMAIN @ |->
                        IF id \in called THEN Advance(@[id]) ELSE @[id]],
                    !.asked = [id \in DOMAIN @ |->
                        IF id \in called THEN Append(@[id], tt.dt) ELSE @[id]],
                    !.lines = IF bad = {} THEN Append(@, row) ELSE @,
                    !.dt = IF bad = {} THEN @ + RowStep ELSE @,
                    !.pc = IF bad # {} THEN "StopIteration"
                           ELSE IF tt.dt + RowStep > GlobalEnd(events) THEN "join"
                           ELSE "loop"]
    /\ UNCHANGED <<gen, events, col_width, DATA, META_DATA, main, upd, req, feed, hist>>

\* line 275
TimetableReturn ==
    /\ tt.pc = "join"
    /\ tt' = [tt EXCEPT !.pc = "returned"]
    /\ UNCHANGED <<gen, events, col_width, DATA, META_DATA, main, upd, req, feed, hist>>

-----------------------------------------------------------------------------
(* The globals (lines 30-36) and what normalize returns (lines 127-140).   *)
(* Every object carries the number of the normalize call that made it:     *)
(* two objects are the same object when their numbers agree.  0 is the     *)
(* list the module starts with, and the None of last_update.               *)

SampleEvents ==
    <<[id |-> 1, start |-> 0, duration |-> 30, location |-> "loc1", title |-> <<4>>]>>

EmptyDATA ==
    [locations |-> [obj |-> 0, val |-> << >>], events |-> [obj |-> 0, val |-> << >>]]

NoUpdate == [last_update |-> 0]

normalize(n) ==
    [locations |-> [obj |-> n, val |-> AllLocations],
     events |-> [obj |-> n, val |-> SampleEvents]]

-----------------------------------------------------------------------------
(* __main__, lines 459-469, and start_background_tasks, lines 447-448.     *)

\* the number of the objects made from the data file: no fetch has it
FileObject == MaxFetches + 1

StartBackgroundTasksNever(u) == u

\* app.loop.create_task(check_for_updates(app)): the task exists and has not run
StartBackgroundTasks(u) == [u EXCEPT !.pc = "created"]

\* lines 459-468: the data file is loaded, or the startup hook registered
MainSetup ==
    /\ main.pc = "module"
    /\ main' = [main EXCEPT !.pc = "run_app"]
    /\ DATA' = IF main.data_file THEN normalize(FileObject) ELSE DATA
    /\ UNCHANGED <<gen, events, col_width, tt, META_DATA, upd, req, feed, hist>>

\* line 469: web.run_app sends on_startup, and only then starts to accept requests
RunAppStartup ==
    /\ main.pc = "run_app"
    /\ main' = [main EXCEPT !.pc = "serving"]
    /\ upd' = IF main.data_file THEN upd ELSE StartBackgroundTasks(upd)
    /\ UNCHANGED <<gen, events, col_width, tt, DATA, META_DATA, req, feed, hist>>

-----------------------------------------------------------------------------
(* handle_gulasch_request, lines 383-430, as far as it reads the globals.  *)
(* The event loop runs a coroutine until it awaits: the handler awaits     *)
(* nowhere, so no other task runs between its steps.                       *)

HandlerAwaitsBetweenReads == TRUE

\* whether the handler gives up the event loop between line 405 (it reads
\* DATA['events']) and line 186, called from line 415 (it reads DATA['locations'])
HandlerYields == FALSE

NotRead == [read |-> FALSE, obj |-> 0, val |-> << >>]

\* lines 383-406: the query is parsed and the events are filtered (get_next_events,
\* lines 170-173); a bad query returns the error response at once.  A task made
\* by create_task is ready at once: the loop runs it up to its first await before
\* it looks at the sockets, so no request is handled while the task has not run
RequestFilter ==
    /\ main.pc = "serving"
    /\ upd.pc # "created"
    /\ req.pc \in {"idle", "responded"}
    /\ \E bad_query \in BOOLEAN, in_window \in BOOLEAN, fmt \in {"timetable", "list"} :
          req' = IF bad_query
                 THEN [pc |-> "responded", format |-> fmt, events |-> NotRead,
                       locations |-> NotRead, first_fetch_done |-> upd.calls_done > 0]
                 ELSE [pc |-> "filtered", format |-> fmt,
                       events |-> [read |-> TRUE, obj |-> DATA.events.obj,
                                   val |-> IF in_window THEN DATA.events.val ELSE << >>],
                       locations |-> NotRead, first_fetch_done |-> upd.calls_done > 0]
    /\ UNCHANGED <<gen, events, col_width, tt, DATA, META_DATA, main, upd, feed, hist>>

\* lines 408-430: timetable (line 415) reads DATA['locations'] at line 186 unless
\* there are no events (line 178); the other formats do not read it
RequestRender ==
    /\ req.pc = "filtered"
    /\ req' = [req EXCEPT
              !.pc = "responded",
              !.locations = IF req.format = "timetable" /\ req.events.val # << >>
                            THEN [read |-> TRUE, obj |-> DATA.locations.obj,
                                  val |-> DATA.locations.val]
                            ELSE @]
    /\ UNCHANGED <<gen, events, col_width, tt, DATA, META_DATA, main, upd, feed, hist>>

\* the event loop can run a step of another task
LoopIsFree == req.pc # "filtered" \/ HandlerYields

-----------------------------------------------------------------------------
(* update, lines 325-338, and check_for_updates, lines 341-348.            *)

Failures == {"status", "network", "payload"}

UpdateResultStampsFirst(outcome, data, meta, now, n) ==
    IF outcome = "ok"
    THEN [data |-> normalize(n), meta |-> [last_update |-> now]]
    ELSE [data |-> data, meta |-> [last_update |-> now]]

\* what update leaves in DATA and META_DATA: lines 337-338 are reached only
\* when the status is below 300 and nothing before them has raised
UpdateResult(outcome, data, meta, now, n) ==
    IF outcome = "ok"
    THEN [data |-> normalize(n), meta |-> [last_update |-> now]]
    ELSE [data |-> data, meta |-> meta]

\* check_for_updates after update() ended: it returned (lines 333, 338) and the loop
\* goes on to sleep, or it raised and nothing in lines 343-348 catches it
AfterUpdate(outcome) ==
    IF outcome \in {"ok", "status"} THEN "sleeping" ELSE "crashed"

\* lines 343 and 346-348, then lines 326-329: the task runs for the first time or
\* its sleep is over; update takes the time and awaits the response
UpdateBegin ==
    /\ LoopIsFree
    /\ upd.pc \in {"created", "sleeping"}
    /\ feed < MaxFetches
    /\ feed' = feed + 1
    /\ upd' = [upd EXCEPT !.pc = "get", !.now = feed + 1]
    /\ hist' = [DATA |-> DATA, META_DATA |-> META_DATA, outcome |-> "running"]
    /\ UNCHANGED <<gen, events, col_width, tt, DATA, META_DATA, main, req>>

\* lines 329-333: the response arrives, or the request fails
UpdateResponse ==
    /\ LoopIsFree
    /\ upd.pc = "get"
    /\ \E outcome \in {"ok", "status", "network"} :
          LET after == IF outcome = "ok" THEN [data |-> DATA, meta |-> META_DATA]
                       ELSE UpdateResult(outcome, DATA, META_DATA, upd.now, feed)
          IN  /\ upd' = IF outcome = "ok" THEN [upd EXCEPT !.pc = "read"]
                        ELSE [upd EXCEPT !.pc = AfterUpdate(outcome), !.calls_done = @ + 1]
              /\ hist' = IF outcome = "ok" THEN hist ELSE [hist EXCEPT !.outcome = outcome]
              /\ DATA' = after.data
              /\ META_DATA' = after.meta
    /\ UNCHANGED <<gen, events, col_width, tt, main, req, feed>>

\* lines 331 and 335-338: the body is read, decoded and normalized, and the globals
\* are assigned; reading, json.loads and normalize can raise
UpdateFinish ==
    /\ LoopIsFree
    /\ upd.pc = "read"
    /\ \E outcome \in {"ok", "network", "payload"} :
          /\ upd' = [upd EXCEPT !.pc = AfterUpdate(outcome), !.calls_done = @ + 1]
          /\ hist' = [hist EXCEPT !.outcome = outcome]
          /\ DATA' = UpdateResult(outcome, DATA, META_DATA, upd.now, feed).data
          /\ META_DATA' = UpdateResult(outcome, DATA, META_DATA, upd.now, feed).meta
    /\ UNCHANGED <<gen, events, col_width, tt, main, req, feed>>

-----------------------------------------------------------------------------
(* The three specifications: a card generator alone, one timetable call,   *)
(* and the server with its update task and its requests.                   *)

IdleTimetable ==
    [pc |-> "none", dt |-> 0, cards_by_id |-> << >>, lines |-> << >>, asked |-> << >>]
IdleMain == [pc |-> "none", data_file |-> TRUE]
IdleUpdate == [pc |-> "none", now |-> 0, calls_done |-> 0]
IdleRequest ==
    [pc |-> "idle", format |-> "timetable", events |-> NotRead, locations |-> NotRead,
     first_fetch_done |-> FALSE]
NoHistory == [DATA |-> EmptyDATA, META_DATA |-> NoUpdate, outcome |-> "none"]

\* the events a card generator is made for
CardEvents ==
    [id : {1}, start : {0}, duration : 1..MaxDuration, location : {"loc1"}, title : Titles]

\* the events of a timetable call, without their ids
EventBodies ==
    [start : StartTimes, duration : Durations,
     location : Range(AllLocations), title : TimetableTitles]

WithId(b, i) ==
    [id |-> i, start |-> b.start, duration |-> b.duration,
     location |-> b.location, title |-> b.title]

\* lines 405-406: the argument of timetable is put together, one event of the
\* window after the other.  Ids are unique, every location is one of
\* DATA['locations'] and the list is sorted by start.  This specification leaves
\* DATA['events'] out: timetable reads its argument and DATA['locations'] alone
GetNextEvents ==
    /\ tt.pc = "request"
    /\ Len(events) < MaxEvents
    /\ \E b \in EventBodies :
          /\ events # << >> => Last(events).start <= b.start
          /\ events' = Append(events, WithId(b, Len(events) + 1))
    /\ UNCHANGED <<gen, col_width, tt, DATA, META_DATA, main, upd, req, feed, hist>>

InitCard ==
    /\ gen \in {NewCard(e, cw) : e \in CardEvents, cw \in ColWidths}
    /\ events = << >>
    /\ col_width = 20
    /\ tt = IdleTimetable
    /\ DATA = EmptyDATA
    /\ META_DATA = NoUpdate
    /\ main = IdleMain
    /\ upd = IdleUpdate
    /\ req = IdleRequest
    /\ feed = 0
    /\ hist = NoHistory

Init ==
    /\ gen = NoCard
    /\ events = << >>
    /\ col_width \in TimetableColWidths
    /\ tt = [IdleTimetable EXCEPT !.pc = "request"]
    /\ DATA = [locations |-> [obj |-> 0, val |-> AllLocations],
               events |-> [obj |-> 0, val |-> << >>]]
    /\ META_DATA = NoUpdate
    /\ main = IdleMain
    /\ upd = IdleUpdate
    /\ req = IdleRequest
    /\ feed = 0
    /\ hist = NoHistory

InitServer ==
    /\ gen = NoCard
    /\ events = << >>
    /\ col_width = 20
    /\ tt = IdleTimetable
    /\ DATA = EmptyDATA
    /\ META_DATA = NoUpdate
    /\ main \in [pc : {"module"}, data_file : BOOLEAN]
    /\ upd = IdleUpdate
    /\ req = IdleRequest
    /\ feed = 0
    /\ hist = NoHistory

NextCard == CardNext

Next == GetNextEvents \/ TimetableStart \/ TimetableRow \/ TimetableReturn

NextServer ==
    \/ MainSetup
    \/ RunAppStartup
    \/ RequestFilter
    \/ RequestRender
    \/ UpdateBegin
    \/ UpdateResponse
    \/ UpdateFinish

SpecCard == InitCard /\ [][NextCard]_vars

Spec == Init /\ [][Next]_vars

SpecServer == InitServer /\ [][NextServer]_vars

-----------------------------------------------------------------------------
(* What the claims say of the card generator (SpecCard).                   *)

\* C1, as claimed: a card generator that is exhausted has yielded exactly
\* max(0, duration // 5 - 1) lines.
C1_CardYieldsHeightLines ==
    gen.state = "exhausted" => gen.pos = Max(0, Height(gen.event))

\* C1, as amended: a card generator that is exhausted has yielded exactly
\* max(height, len(titlelines) + 3) lines, titlelines being the wrapped title after
\* it was shortened; that is height lines when height >= len(titlelines) + 3, and
\* never fewer than three.
C1_CardYieldsHeightOrMinimum ==
    gen.state = "exhausted" =>
        /\ gen.pos = Max(Height(gen.event),
                         Len(TitleLines(gen.event, gen.col_width)) + 3)
        /\ gen.pos >= 3
        /\ Height(gen.event) >= Len(TitleLines(gen.event, gen.col_width)) + 3
              => gen.pos = Height(gen.event)

\* an exhausted card with a title of several lines that filled its height exactly
C1_Witness ==
    /\ gen.state = "exhausted"
    /\ Len(TitleLines(gen.event, gen.col_width)) > 1
    /\ gen.pos = Height(gen.event)

-----------------------------------------------------------------------------
(* What the claims say of one timetable call (Spec).                       *)

\* the events of each location do not overlap
NonOverlapping(evs) ==
    \A i, j \in DOMAIN evs :
        (i < j /\ evs[i].location = evs[j].location) =>
            (End(evs[i]) <= evs[j].start \/ End(evs[j]) <= evs[i].start)

\* starts and durations are multiples of five minutes
OnTheGrid(evs) ==
    \A i \in DOMAIN evs : evs[i].start % 5 = 0 /\ evs[i].duration % 5 = 0

Occurrences(seq, x) == Cardinality({k \in DOMAIN seq : seq[k] = x})

\* a timetable call on a list that is not empty, past its first lines
Started == events # << >> /\ tt.pc \in {"loop", "join", "returned", "StopIteration"}

Rows == {k \in DOMAIN tt.lines : tt.lines[k].kind = "row"}

\* C2: with events of positive duration that do not overlap within a location, the
\* card of every event is asked for a line exactly once in every row with
\* start < row < end and in no other row, and never for more lines than the height
\* duration // 5 - 1 of the event.
C2_CursorAskedOncePerInteriorRowWithinHeight ==
    (Started /\ NonOverlapping(events)) =>
        \A i \in DOMAIN events :
            /\ tt.pc # "StopIteration" =>
                  \A r \in RowTimes(events) :
                      Occurrences(tt.asked[events[i].id], r) =
                          IF r < tt.dt /\ IsRunningAt(events[i], r) THEN 1 ELSE 0
            /\ Len(tt.asked[events[i].id]) <= Height(events[i])

\* C3: with events of positive duration that do not overlap within a location,
\* timetable does not raise, and it returns 1 + rowCount lines, rowCount being
\* (globalEnd - globalStart) / 5 + 1.
C3_ReturnsHeaderAndRowCountLines ==
    (Started /\ NonOverlapping(events)) =>
        /\ tt.pc # "StopIteration"
        /\ tt.pc = "returned" =>
              Len(tt.lines) = 1 + ((GlobalEnd(events) - GlobalStart(events)) \div 5 + 1)

BooleanTuples == [1..4 -> BOOLEAN]

Glyphs ==
    {"T_DOWN", "T_UP", "T_LEFT", "T_RIGHT", "CROSS",
     "CORNER_UR", "CORNER_DR", "CORNER_DL", "CORNER_UL"}

\* C8: get_seperator has a glyph for every tuple of four booleans with a true one,
\* and every call of it in a timetable call (left edge, junctions, right edge of
\* every row) has a true one among its arguments and finds a glyph.
C8_NoJunctionLookupMisses ==
    /\ \A args \in BooleanTuples : CountTrue(args) >= 1 => get_seperator(args) \in Glyphs
    /\ \A k \in Rows : \A p \in DOMAIN tt.lines[k].parts :
          LET part == tt.lines[k].parts[p]
          IN  part.call # << >> => (CountTrue(part.call) >= 1 /\ part.sep \in Glyphs)

\* a row in which the left edge, the junction and the right edge were all looked up
C8_Witness ==
    /\ tt.pc = "returned"
    /\ \E k \in Rows :
          /\ Len(tt.lines[k].parts) = 3
          /\ \A p \in 1..3 : tt.lines[k].parts[p].call # << >>

\* scenario B: A at loc1 and B at loc2, both from 10:00 to 10:30
ScenarioB ==
    /\ Len(events) = 2
    /\ \A i \in 1..2 : events[i].start = 0 /\ events[i].duration = 30
    /\ events[1].location = "loc1"
    /\ events[2].location = "loc2"

\* the glyph between the two columns in the row at dt
JunctionGlyphAt(dt) ==
    LET k == CHOOSE k \in Rows : tt.lines[k].dt = dt
    IN  tt.lines[k].parts[2].sep

\* C9, as claimed: in scenario B the glyph between the two columns is T_RIGHT or
\* T_LEFT in the rows 10:00 and 10:30, and not the vertical bar.
C9_ScenarioBJunctionIsSideTee ==
    (ScenarioB /\ tt.pc = "returned") =>
        \A dt \in {0, 30} : JunctionGlyphAt(dt) \in {"T_RIGHT", "T_LEFT"}

\* C9, as amended: in scenario B the glyph between the two columns is the table's
\* entry for (F,T,T,F), T_DOWN, in the row 10:00 and the entry for (T,F,F,T), T_UP,
\* in the row 10:30, and not the vertical bar.
C9_ScenarioBJunctionIsDownThenUpTee ==
    (ScenarioB /\ tt.pc = "returned") =>
        /\ JunctionGlyphAt(0) = "T_DOWN"
        /\ JunctionGlyphAt(30) = "T_UP"
        /\ \A dt \in {0, 30} : JunctionGlyphAt(dt) # "UD"

\* scenario B, rendered
C9_Witness ==
    /\ ScenarioB
    /\ tt.pc = "returned"
    /\ Len(tt.lines) = 8

\* C10: with starts and durations that are multiples of five, unique ids, known
\* locations and no overlap within a location, no card is asked for a line after
\* its last one: timetable never raises StopIteration.
C10_CardsOnTheGridNeverExhausted ==
    (Started /\ OnTheGrid(events) /\ NonOverlapping(events)) =>
        /\ tt.pc # "StopIteration"
        /\ \A id \in DOMAIN tt.cards_by_id : tt.cards_by_id[id].state # "exhausted"

\* a rendered event on the grid whose title wraps to more lines than its height
C10_Witness ==
    /\ tt.pc = "returned"
    /\ OnTheGrid(events)
    /\ NonOverlapping(events)
    /\ \E i \in DOMAIN events :
          /\ Height(events[i]) >= 1
          /\ Len(Wrap(events[i].title, col_width - 4)) > Height(events[i])
          /\ Len(tt.asked[events[i].id]) = Height(events[i])

-----------------------------------------------------------------------------
(* What the claims say of the server (SpecServer).                         *)

\* C4: the events a request filters and the locations it orders the columns by are
\* of one snapshot, and DATA never holds the events of one and the locations of
\* another.
C4_RequestSeesOneSnapshot ==
    /\ req.locations.read => req.events.obj = req.locations.obj
    /\ DATA.events.obj = DATA.locations.obj

\* a request rendered from the second snapshot while the next fetch is under way
C4_Witness ==
    /\ req.pc = "responded"
    /\ req.locations.read
    /\ req.locations.obj = 2
    /\ upd.pc = "read"

\* C5: after an update that failed (status, network error, payload) the task
\* check_for_updates is still alive: it sleeps, or it is in a later update.
C5_SchedulerSurvivesFailure ==
    hist.outcome \in Failures => upd.pc \in {"sleeping", "get", "read"}

\* C6, as claimed: without a data file, no request is handled before the first
\* update() has ended.
C6_FirstFetchEndsBeforeServing ==
    (~main.data_file /\ req.pc # "idle") => req.first_fetch_done

\* C6, as amended: without a data file, no request is handled before the task of
\* check_for_updates was made and has begun its first update(); the update may
\* still be under way, and the request then sees the empty DATA.
C6_FirstFetchBeginsBeforeServing ==
    (~main.data_file /\ req.pc # "idle") =>
        /\ upd.pc \notin {"none", "created"}
        /\ feed >= 1
        /\ ~req.first_fetch_done => (req.events.read => req.events.obj = 0)

\* a request answered from the empty DATA while the first fetch is under way
C6_Witness ==
    /\ ~main.data_file
    /\ req.pc = "responded"
    /\ req.events.read
    /\ ~req.first_fetch_done
    /\ upd.pc = "get"
    /\ feed = 1

\* C7: while an update runs and after it failed, DATA['locations'], DATA['events']
\* and last_update are what they were when it began; an update that succeeded has
\* put new objects there.
C7_FailedUpdateKeepsSnapshot ==
    /\ hist.outcome \in Failures \cup {"running"} =>
          (DATA = hist.DATA /\ META_DATA = hist.META_DATA)
    /\ hist.outcome = "ok" =>
          (DATA.events.obj # hist.DATA.events.obj /\ META_DATA # hist.META_DATA)

\* an update that failed on its payload after an earlier one had succeeded
C7_Witness ==
    /\ hist.outcome = "payload"
    /\ DATA.events.obj = 1
    /\ META_DATA.last_update = 1
    /\ upd.calls_done = 2

=============================================================================
